---- MODULE Spec2Model ----
(***************************************************************************)
(* Tic-Tac-Toe board model (TicTacToeGame) and adversarial search          *)
(* (MinimaxAI) of tic_tac_toe_agent.py.                                    *)
(*                                                                         *)
(* The board is the list of three rows of the source, board[row][col],     *)
(* with the cell values ' ', 'X' and 'O'.  The search walks one mutable    *)
(* board (mutate, recurse, undo); the operators below thread that board    *)
(* through the recursion and return it next to the score, so that the      *)
(* state of the board on return is a result of the model and not an        *)
(* assumption.                                                             *)
(***************************************************************************)
EXTENDS Integers, Sequences, FiniteSets, TLC

VARIABLES board, current_player, ai_player, human_player, op, args, ret, exc, pre, pc, opponent,
          scores, buttons, pending

vars == <<board, current_player, ai_player, human_player, op, args, ret, exc, pre, pc, opponent,
          scores, buttons, pending>>

(***************************************************************************)
(* Bounds of the model and constants of the program.                       *)
(***************************************************************************)
\* coordinates handed to is_valid_move / make_move range over -MaxOut .. 2 + MaxOut
MaxOut == 1
\* a direct call of minimax is handed the depth of a root candidate or MaxDepth
MaxDepth == 1
\* the boards of SpecPrune have at most MaxEmpty empty cells
MaxEmpty == 4
\* SpecScore hands minimax the depths 0 .. MaxLeafDepth, on the boards where the
\* game is over and on those with at most MaxLeafEmpty empty cells
MaxLeafDepth == 8
MaxLeafEmpty == 1
\* at most MaxPending callbacks scheduled by root.after wait to run
MaxPending == 2
\* range(3): the side of the board
N == 3
\* math.inf, the initial alpha/beta and best scores; above every score 10 + depth
Inf == 1000
\* the depth get_best_move hands to minimax for a root candidate
RootDepth == 0

Players == {"X", "O"}
Marks == {" ", "X", "O"}
Idx == 0 .. (N - 1)
Boards == [Idx -> [Idx -> Marks]]
EmptyBoard == [i \in Idx |-> [j \in Idx |-> " "]]
\* the nine cell buttons as setup_gui and new_game leave them: state 'normal'
AllNormal == [i \in Idx |-> [j \in Idx |-> "normal"]]
None == "None"

Max(a, b) == IF a >= b THEN a ELSE b
Min(a, b) == IF a <= b THEN a ELSE b

(***************************************************************************)
(* Python list indexing: an index in -3..-1 counts from the end, any other *)
(* index outside 0..2 raises IndexError.                                   *)
(***************************************************************************)
PyIndexOk(i) == i \in (0 - N) .. (N - 1)
PyIndex(i) == i % N
PyCell(b, row, col) == b[PyIndex(row)][PyIndex(col)]
SetCell(b, row, col, v) == [b EXCEPT ![PyIndex(row)][PyIndex(col)] = v]

(***************************************************************************)
(* TicTacToeGame                                                           *)
(***************************************************************************)
\* is_valid_move without the range test: the subscript alone decides
is_valid_move_unchecked(b, row, col) ==
    IF PyIndexOk(row) /\ PyIndexOk(col)
    THEN [ret |-> PyCell(b, row, col) = " ", exc |-> None]
    ELSE [ret |-> FALSE, exc |-> "IndexError"]

is_valid_move(b, row, col) ==
    IF 0 <= row /\ row < N /\ 0 <= col /\ col < N
    THEN IF PyIndexOk(row) /\ PyIndexOk(col)
         THEN [ret |-> PyCell(b, row, col) = " ", exc |-> None]
         ELSE [ret |-> FALSE, exc |-> "IndexError"]
    ELSE [ret |-> FALSE, exc |-> None]

make_move(b, row, col, player) ==
    LET v == is_valid_move(b, row, col)
    IN  IF v.exc # None THEN [board |-> b, ret |-> FALSE, exc |-> v.exc]
        ELSE IF v.ret THEN [board |-> SetCell(b, row, col, player), ret |-> TRUE, exc |-> None]
        ELSE [board |-> b, ret |-> FALSE, exc |-> None]

RowWins(b, r) == b[r][0] = b[r][1] /\ b[r][1] = b[r][2] /\ b[r][2] # " "
ColWins(b, c) == b[0][c] = b[1][c] /\ b[1][c] = b[2][c] /\ b[2][c] # " "

\* check_winner scanning the rows from the last to the first
check_winner_rows_reversed(b) ==
    IF RowWins(b, 2) THEN b[2][0]
    ELSE IF RowWins(b, 1) THEN b[1][0]
    ELSE IF RowWins(b, 0) THEN b[0][0]
    ELSE IF ColWins(b, 0) THEN b[0][0]
    ELSE IF ColWins(b, 1) THEN b[0][1]
    ELSE IF ColWins(b, 2) THEN b[0][2]
    ELSE IF b[0][0] = b[1][1] /\ b[1][1] = b[2][2] /\ b[2][2] # " " THEN b[0][0]
    ELSE IF b[0][2] = b[1][1] /\ b[1][1] = b[2][0] /\ b[2][0] # " " THEN b[0][2]
    ELSE None

check_winner(b) ==
    IF RowWins(b, 0) THEN b[0][0]
    ELSE IF RowWins(b, 1) THEN b[1][0]
    ELSE IF RowWins(b, 2) THEN b[2][0]
    ELSE IF ColWins(b, 0) THEN b[0][0]
    ELSE IF ColWins(b, 1) THEN b[0][1]
    ELSE IF ColWins(b, 2) THEN b[0][2]
    ELSE IF b[0][0] = b[1][1] /\ b[1][1] = b[2][2] /\ b[2][2] # " " THEN b[0][0]
    ELSE IF b[0][2] = b[1][1] /\ b[1][1] = b[2][0] /\ b[2][0] # " " THEN b[0][2]
    ELSE None

\* is_board_full looking at the first row only
is_board_full_first_row(b) == \A j \in Idx : b[0][j] # " "

is_board_full(b) == \A i \in Idx : \A j \in Idx : b[i][j] # " "

\* is_game_over testing is_board_full before the winner
is_game_over_full_first(b) ==
    LET winner == check_winner(b)
    IN  IF is_board_full(b) THEN <<TRUE, "Draw">>
        ELSE IF winner # None THEN <<TRUE, winner>>
        ELSE <<FALSE, None>>

is_game_over(b) ==
    LET winner == check_winner(b)
    IN  IF winner # None THEN <<TRUE, winner>>
        ELSE IF is_board_full(b) THEN <<TRUE, "Draw">>
        ELSE <<FALSE, None>>

\* the cells in the order of the nested loops "for i in range(3): for j in range(3)"
RowMajor == [k \in 1 .. (N * N) |-> <<(k - 1) \div N, (k - 1) % N>>]

ColumnMajor == [k \in 1 .. (N * N) |-> <<(k - 1) % N, (k - 1) \div N>>]

IsEmptyCell(b, m) == b[m[1]][m[2]] = " "

\* get_available_moves with the two loops exchanged
get_available_moves_column_major(b) == SelectSeq(ColumnMajor, LAMBDA m : IsEmptyCell(b, m))

get_available_moves(b) == SelectSeq(RowMajor, LAMBDA m : IsEmptyCell(b, m))

(***************************************************************************)
(* MinimaxAI(ai, human)                                                    *)
(***************************************************************************)
\* evaluate_board with the two signs exchanged
evaluate_board_swapped(b, ai, human) ==
    LET winner == check_winner(b)
    IN  IF winner = ai THEN -10
        ELSE IF winner = human THEN 10
        ELSE 0

evaluate_board(b, ai, human) ==
    LET winner == check_winner(b)
    IN  IF winner = ai THEN 10
        ELSE IF winner = human THEN -10
        ELSE 0

\* the terminal score without the depth adjustment
DepthAdjustNone(score, depth) == score

\* the depth added to a win instead of subtracted
DepthAdjustSlowWins(score, depth) ==
    IF score > 0 THEN score + depth
    ELSE IF score < 0 THEN score + depth
    ELSE 0

\* the depth left out of a loss
DepthAdjustWinsOnly(score, depth) ==
    IF score > 0 THEN score - depth
    ELSE IF score < 0 THEN score
    ELSE 0

\* "score - depth" for a win, "score + depth" for a loss, 0 otherwise
DepthAdjust(score, depth) ==
    IF score > 0 THEN score - depth
    ELSE IF score < 0 THEN score + depth
    ELSE 0

\* the trial move left on the board
UndoMoveSkipped(b, row, col) == b

\* "game.board[row][col] = ' '" after the recursive call
UndoMove(b, row, col) == [b EXCEPT ![row][col] = " "]

\* the comparison of the cut-off the wrong way round
CutoffInverted(alpha, beta) == alpha <= beta

\* "if beta <= alpha: break"
Cutoff(alpha, beta) == beta <= alpha

RECURSIVE minimax(_, _, _, _, _, _, _)
RECURSIVE MaxLoop(_, _, _, _, _, _, _, _, _)
RECURSIVE MinLoop(_, _, _, _, _, _, _, _, _)

(***************************************************************************)
(* The results carry, next to the score (val), the board as the call       *)
(* leaves it.                                                              *)
(***************************************************************************)
\* the loop of the maximizing branch from its i-th candidate on
MaxLoop(b, ai, human, depth, moves, i, alpha, beta, max_eval) ==
    IF i > Len(moves) THEN [val |-> max_eval, board |-> b]
    ELSE LET row == moves[i][1]
             col == moves[i][2]
             r == minimax([b EXCEPT ![row][col] = ai], ai, human, depth + 1, FALSE, alpha, beta)
             b2 == UndoMove(r.board, row, col)
             me == Max(max_eval, r.val)
             a == Max(alpha, r.val)
         IN  IF Cutoff(a, beta) THEN [val |-> me, board |-> b2]
             ELSE MaxLoop(b2, ai, human, depth, moves, i + 1, a, beta, me)

\* the loop of the minimizing branch from its i-th candidate on
MinLoop(b, ai, human, depth, moves, i, alpha, beta, min_eval) ==
    IF i > Len(moves) THEN [val |-> min_eval, board |-> b]
    ELSE LET row == moves[i][1]
             col == moves[i][2]
             r == minimax([b EXCEPT ![row][col] = human], ai, human, depth + 1, TRUE, alpha, beta)
             b2 == UndoMove(r.board, row, col)
             me == Min(min_eval, r.val)
             bt == Min(beta, r.val)
         IN  IF Cutoff(alpha, bt) THEN [val |-> me, board |-> b2]
             ELSE MinLoop(b2, ai, human, depth, moves, i + 1, alpha, bt, me)

minimax(b, ai, human, depth, is_maximizing, alpha, beta) ==
    IF is_game_over(b)[1]
    THEN [val |-> DepthAdjust(evaluate_board(b, ai, human), depth), board |-> b]
    ELSE IF is_maximizing
         THEN MaxLoop(b, ai, human, depth, get_available_moves(b), 1, alpha, beta, 0 - Inf)
         ELSE MinLoop(b, ai, human, depth, get_available_moves(b), 1, alpha, beta, Inf)

\* a later candidate replacing the incumbent on a tie
ImprovesOrTies(score, best_score) == score >= best_score

\* "if score > best_score"
Improves(score, best_score) == score > best_score

\* the root call with the depth of a reply of the opponent
RootCallDepthOne(b, ai, human) ==
    minimax(b, ai, human, RootDepth + 1, FALSE, 0 - Inf, Inf)

\* "score = self.minimax(game, 0, False)"
RootCall(b, ai, human) ==
    minimax(b, ai, human, RootDepth, FALSE, 0 - Inf, Inf)

\* the loop of get_best_move from its i-th candidate on; scores collects the
\* values the local variable score takes, one for each candidate
RECURSIVE BestLoop(_, _, _, _, _, _, _, _)
BestLoop(b, ai, human, moves, i, best_score, best_move, sc) ==
    IF i > Len(moves) THEN [move |-> best_move, board |-> b, scores |-> sc]
    ELSE LET row == moves[i][1]
             col == moves[i][2]
             r == RootCall([b EXCEPT ![row][col] = ai], ai, human)
             b2 == UndoMove(r.board, row, col)
         IN  IF Improves(r.val, best_score)
             THEN BestLoop(b2, ai, human, moves, i + 1, r.val, <<row, col>>, Append(sc, r.val))
             ELSE BestLoop(b2, ai, human, moves, i + 1, best_score, best_move, Append(sc, r.val))

\* best_move = None is the empty tuple here
get_best_move(b, ai, human) ==
    BestLoop(b, ai, human, get_available_moves(b), 1, 0 - Inf, <<>>, <<>>)

(***************************************************************************)
(* Spec: a TicTacToeGame whose board is any of the 3^9 cell assignments    *)
(* (the tests assign game.board directly); each behaviour is one call of   *)
(* a method of the board model.  op, args, ret and exc record the call,    *)
(* pre is the board before it.                                             *)
(***************************************************************************)
Coords == (0 - MaxOut) .. (N - 1 + MaxOut)

Init ==
    /\ board \in Boards
    /\ ai_player = "O"
    /\ human_player = "X"
    /\ current_player = "X"
    /\ op = "init"
    /\ args = <<>>
    /\ ret = <<>>
    /\ exc = None
    /\ pre = board
    /\ pc = "call"
    /\ opponent = "any"
    /\ scores = <<>>
    /\ buttons = AllNormal
    /\ pending = 0

Call(name, a, r, e, b) ==
    /\ pc = "call"
    /\ op = "init"
    /\ op' = name
    /\ args' = a
    /\ ret' = r
    /\ exc' = e
    /\ pre' = board
    /\ board' = b
    /\ UNCHANGED <<current_player, ai_player, human_player, pc, opponent, scores, buttons, pending>>

CallIsValidMove ==
    \E row \in Coords, col \in Coords :
        LET r == is_valid_move(board, row, col)
        IN  Call("is_valid_move", <<row, col>>, r.ret, r.exc, board)

CallMakeMove ==
    \E row \in Coords, col \in Coords, player \in Players :
        LET r == make_move(board, row, col, player)
        IN  Call("make_move", <<row, col, player>>, r.ret, r.exc, r.board)

CallCheckWinner == Call("check_winner", <<>>, check_winner(board), None, board)

CallIsBoardFull == Call("is_board_full", <<>>, is_board_full(board), None, board)

CallIsGameOver == Call("is_game_over", <<>>, is_game_over(board), None, board)

CallGetAvailableMoves == Call("get_available_moves", <<>>, get_available_moves(board), None, board)

Next ==
    \/ CallIsValidMove
    \/ CallMakeMove
    \/ CallCheckWinner
    \/ CallIsBoardFull
    \/ CallIsGameOver
    \/ CallGetAvailableMoves

Spec == Init /\ [][Next]_vars

(***************************************************************************)
(* SpecSearch: the MinimaxAI('O', 'X') of the front-ends and the tests and *)
(* a board, any of the 3^9 cell assignments; each behaviour is one call of *)
(* the search.                                                             *)
(***************************************************************************)
InitSearch ==
    /\ board \in Boards
    /\ ai_player = "O"
    /\ human_player = "X"
    /\ current_player = "X"
    /\ op = "init"
    /\ args = <<>>
    /\ ret = <<>>
    /\ exc = None
    /\ pre = board
    /\ pc = "call"
    /\ opponent = "any"
    /\ scores = <<>>
    /\ buttons = AllNormal
    /\ pending = 0

CallGetBestMove ==
    /\ pc = "call"
    /\ op = "init"
    /\ \E r \in {get_best_move(board, ai_player, human_player)} :
        /\ op' = "get_best_move"
        /\ args' = <<>>
        /\ pre' = board
        /\ board' = r.board
        /\ ret' = r.move
        /\ exc' = None
        /\ scores' = r.scores
        /\ UNCHANGED <<current_player, ai_player, human_player, pc, opponent, buttons, pending>>

Depths == {RootDepth, MaxDepth}

\* minimax(game, depth, is_maximizing) with the default alpha and beta
CallMinimax ==
    /\ pc = "call"
    /\ op = "init"
    /\ \E depth \in Depths, is_maximizing \in BOOLEAN :
        \E r \in {minimax(board, ai_player, human_player, depth, is_maximizing, 0 - Inf, Inf)} :
            /\ op' = "minimax"
            /\ args' = <<depth, is_maximizing>>
            /\ pre' = board
            /\ board' = r.board
            /\ ret' = r.val
            /\ exc' = None
            /\ UNCHANGED <<current_player, ai_player, human_player, pc, opponent, scores, buttons, pending>>

NextSearch ==
    \/ CallGetBestMove
    \/ CallMinimax

SpecSearch == InitSearch /\ [][NextSearch]_vars

(***************************************************************************)
(* SpecPlay: one game from the empty board, the loop of                    *)
(* GameController.play_game.  The side to move first is either player.     *)
(* The opponent ('X') plays any valid cell (opponent = "any", the input of *)
(* get_human_move) or the move of a search built with 'X' as its           *)
(* maximizing side (opponent = "optimal").  pc is "loop" while the loop    *)
(* runs and "done" after its break.                                        *)
(***************************************************************************)
InitPlay ==
    /\ board = EmptyBoard
    /\ ai_player = "O"
    /\ human_player = "X"
    /\ current_player \in Players
    /\ opponent \in {"any", "optimal"}
    /\ op = "init"
    /\ args = <<>>
    /\ ret = <<>>
    /\ exc = None
    /\ pre = board
    /\ pc = "loop"
    /\ scores = <<>>
    /\ buttons = AllNormal
    /\ pending = 0

\* one iteration of the loop: the move of player at (row, col), the switch of
\* current_player to next_player and the is_game_over test with its break
Turn(name, row, col, player, next_player) ==
    \E r \in {make_move(board, row, col, player)} :
        /\ op' = name
        /\ args' = <<row, col>>
        /\ ret' = r.ret
        /\ exc' = r.exc
        /\ pre' = board
        /\ board' = r.board
        /\ current_player' = next_player
        /\ pc' = IF is_game_over(r.board)[1] THEN "done" ELSE "loop"
        /\ UNCHANGED <<ai_player, human_player, opponent, scores, buttons, pending>>

\* get_human_move returns the first input that is_valid_move accepts
HumanTurn ==
    /\ pc = "loop"
    /\ current_player = human_player
    /\ opponent = "any"
    /\ \E row \in Coords, col \in Coords :
        /\ is_valid_move(board, row, col).ret
        /\ Turn("human_move", row, col, human_player, ai_player)

OptimalOpponentTurn ==
    /\ pc = "loop"
    /\ current_player = human_player
    /\ opponent = "optimal"
    /\ \E m \in {get_best_move(board, human_player, ai_player).move} :
            Turn("optimal_move", m[1], m[2], human_player, ai_player)

AITurn ==
    /\ pc = "loop"
    /\ current_player = ai_player
    /\ \E m \in {get_best_move(board, ai_player, human_player).move} :
            Turn("ai_move", m[1], m[2], ai_player, human_player)

NextPlay ==
    \/ HumanTurn
    \/ OptimalOpponentTurn
    \/ AITurn

SpecPlay == InitPlay /\ [][NextPlay]_vars

\* An iteration of the loop as seen from outside: the side to move marks some
\* empty cell, the turn passes and the loop tests is_game_over.  Every step of
\* NextPlay is such a step.
Other(player) == IF player = "X" THEN "O" ELSE "X"

LoopIteration ==
    /\ pc = "loop"
    /\ \E m \in {c \in Idx \X Idx : board[c[1]][c[2]] = " "},
          name \in {"human_move", "optimal_move", "ai_move"} :
            Turn(name, m[1], m[2], current_player, Other(current_player))

\* the loop "while True" runs on until its break: no input is awaited forever
\* and the search returns.  The fairness is on LoopIteration, whose enabling
\* condition is that of NextPlay whenever the move the search returns is an
\* empty cell.
SpecPlayFair == InitPlay /\ [][NextPlay]_vars /\ WF_vars(LoopIteration)

(***************************************************************************)
(* SpecPrune: the calls of SpecSearch on the boards with at most MaxEmpty  *)
(* empty cells, where the game tree below the board is small enough to be  *)
(* walked without cut-offs next to the search.                             *)
(***************************************************************************)
InitPrune ==
    /\ board \in {b \in Boards : Len(get_available_moves(b)) <= MaxEmpty}
    /\ ai_player = "O"
    /\ human_player = "X"
    /\ current_player = "X"
    /\ op = "init"
    /\ args = <<>>
    /\ ret = <<>>
    /\ exc = None
    /\ pre = board
    /\ pc = "call"
    /\ opponent = "any"
    /\ scores = <<>>
    /\ buttons = AllNormal
    /\ pending = 0

NextPrune ==
    \/ CallGetBestMove
    \/ CallMinimax

SpecPrune == InitPrune /\ [][NextPrune]_vars

(***************************************************************************)
(* SpecScore: the scoring of the leaves.  The board is any of the 3^9 cell *)
(* assignments; each behaviour is one call of evaluate_board, or one call  *)
(* of minimax at a depth of 0 .. MaxLeafDepth on a board where the game is *)
(* over or at most MaxLeafEmpty cells are empty.                           *)
(***************************************************************************)
CallEvaluateBoard ==
    Call("evaluate_board", <<>>, evaluate_board(board, ai_player, human_player), None, board)

LeafDepths == 0 .. MaxLeafDepth

CallMinimaxAtLeaf ==
    /\ pc = "call"
    /\ op = "init"
    /\ is_game_over(board)[1] \/ Len(get_available_moves(board)) <= MaxLeafEmpty
    /\ \E depth \in LeafDepths, is_maximizing \in BOOLEAN :
        \E r \in {minimax(board, ai_player, human_player, depth, is_maximizing, 0 - Inf, Inf)} :
            /\ op' = "minimax"
            /\ args' = <<depth, is_maximizing>>
            /\ pre' = board
            /\ board' = r.board
            /\ ret' = r.val
            /\ exc' = None
            /\ UNCHANGED <<current_player, ai_player, human_player, pc, opponent, scores, buttons, pending>>

NextScore ==
    \/ CallEvaluateBoard
    \/ CallMinimaxAtLeaf

SpecScore == InitSearch /\ [][NextScore]_vars

(***************************************************************************)
(* SpecGui: the event loop of TicTacToeGUI.  The events are a click on a   *)
(* cell button (Tk runs the command of a button only while its state is    *)
(* 'normal'), a press of NEW GAME, a press of QUIT and the run of an       *)
(* ai_move callback that on_cell_click scheduled with root.after; each     *)
(* handler runs to its end before the next event.  buttons holds the       *)
(* state of the nine cell buttons, pending the number of scheduled         *)
(* callbacks that have not run yet, pc is "mainloop" until QUIT.  op is    *)
(* the last handler; after ai_move, pre is the board it handed to the      *)
(* search and ret the move returned; the other handlers leave pre equal    *)
(* to the board.                                                           *)
(***************************************************************************)
AllDisabled == [i \in Idx |-> [j \in Idx |-> "disabled"]]

\* disable_board
disable_board(bt) == AllDisabled

\* enable_board: the buttons of the empty cells become 'normal'
enable_board(bt, b) ==
    [i \in Idx |-> [j \in Idx |-> IF b[i][j] = " " THEN "normal" ELSE bt[i][j]]]

InitGui ==
    /\ board = EmptyBoard
    /\ ai_player = "O"
    /\ human_player = "X"
    /\ current_player = "X"
    /\ op = "init"
    /\ args = <<>>
    /\ ret = <<>>
    /\ exc = None
    /\ pre = board
    /\ pc = "mainloop"
    /\ opponent = "any"
    /\ scores = <<>>
    /\ buttons = AllNormal
    /\ pending = 0

\* on_cell_click(row, col)
OnCellClick ==
    /\ pc = "mainloop"
    /\ \E row \in Idx, col \in Idx :
        /\ buttons[row][col] = "normal"
        /\ op' = "on_cell_click"
        /\ args' = <<>>
        /\ exc' = None
        /\ UNCHANGED <<ai_player, human_player, pc, opponent, scores>>
        /\ IF current_player = human_player /\ ~is_game_over(board)[1]
           THEN \E r \in {make_move(board, row, col, human_player)} :
                /\ ret' = r.ret
                /\ board' = r.board
                /\ IF r.ret
                   THEN IF is_game_over(r.board)[1]
                        THEN \* handle_game_end
                             /\ buttons' = disable_board(buttons)
                             /\ UNCHANGED <<current_player, pending>>
                        ELSE /\ current_player' = ai_player
                             /\ buttons' = disable_board(buttons)
                             /\ pending < MaxPending
                             /\ pending' = pending + 1
                   ELSE UNCHANGED <<current_player, buttons, pending>>
           ELSE /\ ret' = FALSE
                /\ UNCHANGED <<board, current_player, buttons, pending>>
        /\ pre' = board'

\* a scheduled callback runs ai_move; pre is the board handed to get_best_move,
\* ret the move it returns, and unpacking None raises TypeError
AiMove ==
    /\ pc = "mainloop"
    /\ pending > 0
    /\ pending' = pending - 1
    /\ op' = "ai_move"
    /\ args' = <<>>
    /\ pre' = board
    /\ UNCHANGED <<ai_player, human_player, pc, opponent, scores>>
    /\ \E g \in {get_best_move(board, ai_player, human_player)} :
        /\ ret' = g.move
        /\ IF g.move = <<>>
           THEN /\ exc' = "TypeError"
                /\ board' = g.board
                /\ UNCHANGED <<current_player, buttons>>
           ELSE \E r \in {make_move(g.board, g.move[1], g.move[2], ai_player)} :
                /\ exc' = r.exc
                /\ board' = r.board
                /\ IF is_game_over(r.board)[1]
                   THEN \* handle_game_end
                        /\ buttons' = disable_board(buttons)
                        /\ UNCHANGED current_player
                   ELSE /\ current_player' = human_player
                        /\ buttons' = enable_board(buttons, r.board)

\* new_game: a new TicTacToeGame and nine 'normal' buttons; the callbacks
\* already scheduled stay scheduled
NewGame ==
    /\ pc = "mainloop"
    /\ op' = "new_game"
    /\ args' = <<>>
    /\ ret' = <<>>
    /\ exc' = None
    /\ pre' = EmptyBoard
    /\ board' = EmptyBoard
    /\ current_player' = "X"
    /\ ai_player' = "O"
    /\ human_player' = "X"
    /\ buttons' = AllNormal
    /\ UNCHANGED <<pc, opponent, scores, pending>>

\* QUIT: root.quit ends the mainloop
Quit ==
    /\ pc = "mainloop"
    /\ pc' = "quit"
    /\ UNCHANGED <<board, current_player, ai_player, human_player, op, args, ret, exc, pre,
                   opponent, scores, buttons, pending>>

NextGui ==
    \/ OnCellClick
    \/ AiMove
    \/ NewGame
    \/ Quit

SpecGui == InitGui /\ [][NextGui]_vars

(***************************************************************************)
(* Vocabulary of the properties: the eight lines in the order rows,        *)
(* columns, main diagonal, anti-diagonal.                                  *)
(***************************************************************************)
Lines ==
    << <<<<0, 0>>, <<0, 1>>, <<0, 2>>>>,
       <<<<1, 0>>, <<1, 1>>, <<1, 2>>>>,
       <<<<2, 0>>, <<2, 1>>, <<2, 2>>>>,
       <<<<0, 0>>, <<1, 0>>, <<2, 0>>>>,
       <<<<0, 1>>, <<1, 1>>, <<2, 1>>>>,
       <<<<0, 2>>, <<1, 2>>, <<2, 2>>>>,
       <<<<0, 0>>, <<1, 1>>, <<2, 2>>>>,
       <<<<0, 2>>, <<1, 1>>, <<2, 0>>>> >>

At(b, m) == b[m[1]][m[2]]
Owns(b, l, p) == \A k \in 1 .. 3 : At(b, Lines[l][k]) = p
Complete(b, l) == \E p \in Players : Owns(b, l, p)
HasLine(b, p) == \E l \in 1 .. 8 : Owns(b, l, p)
EmptyCells(b) == {m \in Idx \X Idx : At(b, m) = " "}
Ongoing(b) == EmptyCells(b) # {} /\ \A p \in Players : ~HasLine(b, p)
CompletingCells(b, p) ==
    {m \in EmptyCells(b) : HasLine([b EXCEPT ![m[1]][m[2]] = p], p)}
Rank(m) == N * m[1] + m[2]
FirstRowMajor(S) == CHOOSE m \in S : \A n \in S : Rank(m) <= Rank(n)
Count(b, p) == Cardinality({m \in Idx \X Idx : At(b, m) = p})
BoardOf(r0, r1, r2) == [i \in Idx |-> [j \in Idx |-> <<r0, r1, r2>>[i + 1][j + 1]]]

\* minimax without alpha, beta and break: the maximum (minimum) over all the
\* moves of the side to move, with the terminal scoring of the search
SetMax(S) == CHOOSE x \in S : \A y \in S : y <= x
SetMin(S) == CHOOSE x \in S : \A y \in S : x <= y

RECURSIVE PlainMinimax(_, _, _, _, _)
PlainMinimax(b, ai, human, depth, is_maximizing) ==
    IF ~Ongoing(b) THEN DepthAdjust(evaluate_board(b, ai, human), depth)
    ELSE LET vals == {PlainMinimax([b EXCEPT ![m[1]][m[2]] = IF is_maximizing THEN ai ELSE human],
                                   ai, human, depth + 1, ~is_maximizing) : m \in EmptyCells(b)}
         IN  IF is_maximizing THEN SetMax(vals) ELSE SetMin(vals)

\* the first move in row-major order with the greatest plain minimax value
PlainBestMove(b, ai, human) ==
    LET val(m) == PlainMinimax([b EXCEPT ![m[1]][m[2]] = ai], ai, human, RootDepth, FALSE)
        best == SetMax({val(m) : m \in EmptyCells(b)})
    IN  FirstRowMajor({m \in EmptyCells(b) : val(m) = best})

\* the owner of the first complete line in the order of Lines, None without one
Winner(b) ==
    IF \A l \in 1 .. 8 : ~Complete(b, l) THEN None
    ELSE At(b, Lines[CHOOSE l \in 1 .. 8 : Complete(b, l) /\ \A k \in 1 .. (l - 1) : ~Complete(b, k)][1])

\* the score of a board where the game is over, reached at depth d
LeafScore(b, ai, human, d) ==
    IF Winner(b) = ai THEN 10 - d
    ELSE IF Winner(b) = human THEN (0 - 10) + d
    ELSE 0

(***************************************************************************)
(* Properties                                                              *)
(***************************************************************************)

\* C1: in a game from the empty board in which the sides alternate, the
\* opponent plays any valid cell and the AI plays get_best_move, whoever moves
\* first, no board has the opponent as winner.
C1_AINeverLoses ==
    pc \in {"loop", "done"} => ~HasLine(board, human_player)

\* a game against the arbitrary opponent that the AI has won
C1_Witness ==
    /\ pc = "done"
    /\ opponent = "any"
    /\ op = "ai_move"
    /\ HasLine(board, ai_player)

\* C2: minimax (any depth, either side to move, cut-off or not) and
\* get_best_move return with all nine cells as they were before the call.
C2_BoardRestored ==
    op \in {"minimax", "get_best_move"} => board = pre

\* a call of minimax for the maximizing side that took a cut-off: its first
\* candidate raised alpha to v1, and under its second candidate the first reply
\* scored w <= v1, so that loop stopped with replies left untried
C2_Witness ==
    /\ op = "minimax"
    /\ args = <<MaxDepth, TRUE>>
    /\ board = pre
    /\ ~is_game_over(pre)[1]
    /\ LET moves == get_available_moves(pre)
       IN  /\ Len(moves) = 3
           /\ LET b1 == [pre EXCEPT ![moves[1][1]][moves[1][2]] = ai_player]
                  b2 == [pre EXCEPT ![moves[2][1]][moves[2][2]] = ai_player]
                  v1 == minimax(b1, ai_player, human_player, MaxDepth + 1, FALSE, 0 - Inf, Inf).val
                  replies == get_available_moves(b2)
                  b3 == [b2 EXCEPT ![replies[1][1]][replies[1][2]] = human_player]
                  w == minimax(b3, ai_player, human_player, MaxDepth + 2, TRUE, v1, Inf).val
              IN  /\ ~Cutoff(v1, Inf)
                  /\ ~is_game_over(b2)[1]
                  /\ Len(replies) = 2
                  /\ Cutoff(v1, Min(Inf, w))

\* C3: self-play from the empty board, each side moving by get_best_move of a
\* search that maximizes for it, reaches a full board without a winner.
C3_SelfPlayDraw ==
    /\ [](opponent = "optimal" /\ pc = "loop" =>
            get_best_move(board, current_player, Other(current_player)).move
                \in EmptyCells(board))
    /\ (opponent = "optimal") ~>
            (pc = "done" /\ opponent = "optimal" /\ is_board_full(board)
                /\ \A p \in Players : ~HasLine(board, p))

\* the end of a self-play game: the board is full and nobody has a line
C3_Witness ==
    /\ pc = "done"
    /\ opponent = "optimal"
    /\ EmptyCells(board) = {}
    /\ \A p \in Players : ~HasLine(board, p)

\* C4: on the empty board with AI = 'O' and human = 'X', get_best_move
\* returns the centre cell (1, 1).
C4_CentreOnEmptyBoard ==
    (op = "get_best_move" /\ pre = EmptyBoard /\ ai_player = "O" /\ human_player = "X")
        => ret = <<1, 1>>

XXBoard == BoardOf(<<"X", "X", " ">>, <<" ", " ", " ">>, <<" ", " ", " ">>)

\* C5: on an ongoing board where the maximizing side has no cell that
\* completes a line and the minimizing side has exactly one, get_best_move
\* returns that cell; on [[X,X,_],[_,_,_],[_,_,_]] it returns (0, 2).
C5_Blocks ==
    op = "get_best_move" =>
        /\ (/\ Ongoing(pre)
            /\ CompletingCells(pre, ai_player) = {}
            /\ Cardinality(CompletingCells(pre, human_player)) = 1)
           => ret \in CompletingCells(pre, human_player)
        /\ pre = XXBoard => ret = <<0, 2>>

\* get_best_move has answered on the board with the two X of the test
C5_Witness ==
    /\ op = "get_best_move"
    /\ pre = XXBoard
    /\ CompletingCells(pre, ai_player) = {}
    /\ CompletingCells(pre, human_player) = {<<0, 2>>}

OOBoard == BoardOf(<<"O", "O", " ">>, <<"X", " ", " ">>, <<"X", " ", " ">>)

\* C6: on an ongoing board where some empty cell completes a line for the
\* maximizing side, get_best_move returns the first such cell in row-major
\* order; on [[O,O,_],[X,_,_],[X,_,_]] it returns (0, 2).
C6_TakesImmediateWin ==
    op = "get_best_move" =>
        /\ (Ongoing(pre) /\ CompletingCells(pre, ai_player) # {})
           => ret = FirstRowMajor(CompletingCells(pre, ai_player))
        /\ pre = OOBoard => ret = <<0, 2>>

\* get_best_move has answered on a board with two winning cells, of which the
\* first in row-major order is not the first empty cell
C6_Witness ==
    /\ op = "get_best_move"
    /\ Ongoing(pre)
    /\ Cardinality(CompletingCells(pre, ai_player)) = 2
    /\ Rank(ret) > Rank(FirstRowMajor(EmptyCells(pre)))
    /\ ret = FirstRowMajor(CompletingCells(pre, ai_player))

\* C7: make_move returns True exactly when both coordinates are in 0..2 and
\* the cell is empty, and then changes only that cell, to the player's mark;
\* for every other (row, col) it returns False, raises nothing and leaves the
\* nine cells unchanged.
C7_MakeMove ==
    op = "make_move" =>
        LET row == args[1]
            col == args[2]
            valid == row \in Idx /\ col \in Idx /\ pre[row][col] = " "
        IN  /\ exc = None
            /\ ret = valid
            /\ valid => board = [pre EXCEPT ![row][col] = args[3]]
            /\ ~valid => board = pre

\* make_move was refused for a negative row over an empty cell of the last row
C7_Witness ==
    /\ op = "make_move"
    /\ args[1] = -1
    /\ args[2] \in Idx
    /\ pre[N - 1][args[2]] = " "
    /\ ret = FALSE
    /\ board = pre

\* C8: get_available_moves returns exactly the empty cells, each once, in
\* row-major order, 9 minus the number of occupied cells of them, and leaves
\* the board unchanged.
C8_AvailableMoves ==
    op = "get_available_moves" =>
        /\ \A k \in 1 .. Len(ret) : ret[k] \in EmptyCells(pre)
        /\ \A m \in EmptyCells(pre) : \E k \in 1 .. Len(ret) : ret[k] = m
        /\ \A k \in 1 .. (Len(ret) - 1) : Rank(ret[k]) < Rank(ret[k + 1])
        /\ Len(ret) = N * N - (Count(pre, "X") + Count(pre, "O"))
        /\ board = pre

\* the moves of a board with occupied and empty cells in more than one row
C8_Witness ==
    /\ op = "get_available_moves"
    /\ Len(ret) = 4
    /\ ret[1][1] = 0
    /\ ret[4][1] = 2
    /\ ret[2][2] > ret[3][2]

\* C9: is_game_over is a win of P when check_winner is P, even on a full
\* board; otherwise a draw when no cell is empty; otherwise ongoing.  A full
\* board without a complete line is a draw, a board with an empty cell and
\* without a complete line is ongoing.
C9_Outcome ==
    op = "is_game_over" =>
        /\ ret = IF check_winner(pre) # None THEN <<TRUE, check_winner(pre)>>
                 ELSE IF EmptyCells(pre) = {} THEN <<TRUE, "Draw">>
                 ELSE <<FALSE, None>>
        /\ (EmptyCells(pre) = {} /\ \A l \in 1 .. 8 : ~Complete(pre, l))
           => ret = <<TRUE, "Draw">>
        /\ (EmptyCells(pre) # {} /\ \A l \in 1 .. 8 : ~Complete(pre, l))
           => ret = <<FALSE, None>>
        /\ (\E l \in 1 .. 8 : Complete(pre, l)) => ret[1] /\ ret[2] \in Players

\* is_game_over on a full board with a complete line: a win, not a draw
C9_Witness ==
    /\ op = "is_game_over"
    /\ EmptyCells(pre) = {}
    /\ HasLine(pre, "X")
    /\ ret = <<TRUE, "X">>

\* C10: check_winner returns a player iff one of the 8 lines is fully
\* occupied by one player's mark, and then the owner of the first complete
\* line in the order row 0, 1, 2, column 0, 1, 2, main diagonal,
\* anti-diagonal; it returns None when no line is complete.
C10_Winner ==
    op = "check_winner" =>
        LET complete == {l \in 1 .. 8 : Complete(pre, l)}
        IN  /\ (ret \in Players) <=> (complete # {})
            /\ complete = {} => ret = None
            /\ complete # {} =>
                LET first == CHOOSE l \in complete : \A k \in complete : l <= k
                IN  ret = At(pre, Lines[first][1])

\* check_winner on a malformed board: row 0 is X and row 2 is O
C10_Witness ==
    /\ op = "check_winner"
    /\ Owns(pre, 1, "X")
    /\ Owns(pre, 3, "O")
    /\ ret = "X"

\* C11: minimax called with alpha = -inf and beta = +inf returns the value of
\* plain minimax without cut-offs under the same depth-biased terminal
\* scoring, at either depth and for either side to move, and get_best_move
\* returns the move plain minimax chooses.
C11_PruningSound ==
    /\ op = "minimax" =>
        ret = PlainMinimax(pre, ai_player, human_player, args[1], args[2])
    /\ (op = "get_best_move" /\ EmptyCells(pre) # {}) =>
        ret = PlainBestMove(pre, ai_player, human_player)

\* a call of minimax for the minimizing side that took a cut-off: its first
\* candidate lowered beta to v1, and under its second candidate the first
\* reply scored w >= v1, so that loop stopped with replies left untried
C11_Witness ==
    /\ op = "minimax"
    /\ args = <<RootDepth, FALSE>>
    /\ ~is_game_over(pre)[1]
    /\ ret = PlainMinimax(pre, ai_player, human_player, RootDepth, FALSE)
    /\ LET moves == get_available_moves(pre)
       IN  /\ Len(moves) = 4
           /\ LET b1 == [pre EXCEPT ![moves[1][1]][moves[1][2]] = human_player]
                  b2 == [pre EXCEPT ![moves[2][1]][moves[2][2]] = human_player]
                  v1 == minimax(b1, ai_player, human_player, RootDepth + 1, TRUE, 0 - Inf, Inf).val
                  replies == get_available_moves(b2)
                  b3 == [b2 EXCEPT ![replies[1][1]][replies[1][2]] = ai_player]
                  w == minimax(b3, ai_player, human_player, RootDepth + 2, FALSE, 0 - Inf, v1).val
              IN  /\ ~Cutoff(0 - Inf, v1)
                  /\ ~is_game_over(b2)[1]
                  /\ Len(replies) = 3
                  /\ Cutoff(Max(0 - Inf, w), v1)

\* the board get_best_move hands to minimax for its k-th candidate
Candidate(b, k, ai) ==
    LET m == get_available_moves(b)[k]
    IN  [b EXCEPT ![m[1]][m[2]] = ai]

\* C12 as stated: get_best_move scores every candidate, and a candidate that
\* completes a line of the maximizing side is scored at depth 1, 10 - 1 = 9.
C12_RootScoredAtDepthOne ==
    (op = "get_best_move" /\ Ongoing(pre)) =>
        /\ Len(scores) = Cardinality(EmptyCells(pre))
        /\ \A k \in 1 .. Len(scores) :
            HasLine(Candidate(pre, k, ai_player), ai_player) => scores[k] = 10 - 1

\* C12 amended: get_best_move scores every candidate with minimax at depth 0
\* and maximizing = false, so a candidate that ends the game is scored without
\* a depth adjustment, 10 when it completes a line of the maximizing side and
\* 0 when it fills the board without a line.
C12_RootScoredAtDepthZero ==
    (op = "get_best_move" /\ Ongoing(pre)) =>
        /\ Len(scores) = Cardinality(EmptyCells(pre))
        /\ \A k \in 1 .. Len(scores) :
            LET c == Candidate(pre, k, ai_player)
            IN  /\ HasLine(c, ai_player) => scores[k] = 10
                /\ (EmptyCells(c) = {} /\ ~HasLine(c, ai_player)) => scores[k] = 0

\* get_best_move has scored a winning candidate that is not its first
C12_Witness ==
    /\ op = "get_best_move"
    /\ Ongoing(pre)
    /\ Len(scores) = 3
    /\ ~HasLine(Candidate(pre, 1, ai_player), ai_player)
    /\ HasLine(Candidate(pre, 2, ai_player), ai_player)
    /\ scores[2] = 10
    /\ ret = get_available_moves(pre)[2]

\* C13: on a board with an empty cell get_best_move returns the first move,
\* in the row-major order of get_available_moves, whose score is the greatest
\* of the scores of all candidates: every earlier candidate scored strictly
\* less than the move returned and no later one scored more.
C13_FirstBestMove ==
    (op = "get_best_move" /\ EmptyCells(pre) # {}) =>
        LET moves == get_available_moves(pre)
            best == SetMax({scores[k] : k \in 1 .. Len(scores)})
            first == CHOOSE k \in 1 .. Len(scores) :
                        /\ scores[k] = best
                        /\ \A j \in 1 .. (k - 1) : scores[j] # best
        IN  /\ Len(scores) = Len(moves)
            /\ ret = moves[first]
            /\ \A j \in 1 .. Len(scores) :
                /\ Rank(moves[j]) < Rank(ret) => scores[j] < scores[first]
                /\ Rank(moves[j]) > Rank(ret) => scores[j] <= scores[first]

\* get_best_move has kept its second candidate, which beat the first, against
\* a later candidate of the same score
C13_Witness ==
    /\ op = "get_best_move"
    /\ Ongoing(pre)
    /\ Len(scores) >= 3
    /\ scores[1] < scores[2]
    /\ \E k \in 3 .. Len(scores) : scores[k] = scores[2]
    /\ \A k \in 1 .. Len(scores) : scores[k] <= scores[2]
    /\ ret = get_available_moves(pre)[2]

\* C14: evaluate_board is +10 when the winner is the maximizing side, -10 when
\* it is the minimizing side and 0 otherwise; minimax on a board where the
\* game is over returns, at every depth d, 10 - d for a win of the maximizing
\* side, -10 + d for a win of the minimizing side and 0 for a draw; and from a
\* board with one empty cell, which the side to move fills, it returns the
\* score of the filled board at depth d + 1.
C14_TerminalScoring ==
    /\ op = "evaluate_board" =>
        ret = (IF Winner(pre) = ai_player THEN 10
               ELSE IF Winner(pre) = human_player THEN 0 - 10
               ELSE 0)
    /\ (op = "minimax" /\ ~Ongoing(pre)) =>
        ret = LeafScore(pre, ai_player, human_player, args[1])
    /\ (op = "minimax" /\ Ongoing(pre) /\ Cardinality(EmptyCells(pre)) = 1) =>
        LET m == CHOOSE c \in EmptyCells(pre) : TRUE
            mover == IF args[2] THEN ai_player ELSE human_player
        IN  ret = LeafScore([pre EXCEPT ![m[1]][m[2]] = mover], ai_player, human_player, args[1] + 1)

\* minimax at depth 7 for the maximizing side, which completes a line with the
\* last empty cell: the leaf below is scored at depth 8
C14_Witness ==
    /\ op = "minimax"
    /\ args = <<7, TRUE>>
    /\ Ongoing(pre)
    /\ Cardinality(EmptyCells(pre)) = 1
    /\ Count(pre, human_player) = 5
    /\ Count(pre, ai_player) = 3
    /\ ret = 10 - 8

\* C15: get_best_move is only invoked on an ongoing board, a board without a
\* winner and with an empty cell, and returns a cell: whenever ai_move has
\* run, the board it handed to the search was ongoing, the move returned is
\* a pair and nothing was raised.
C15_CalledOnOngoingBoard ==
    op = "ai_move" =>
        /\ Ongoing(pre)
        /\ ret \in Idx \X Idx
        /\ exc = None

\* C16: in every state of the GUI the board of the current game has as many
\* X as O, or one X more: the AI marks no cell before the human has moved in
\* that game and never marks twice in a row.
C16_Alternation ==
    (Count(board, human_player) - Count(board, ai_player)) \in {0, 1}

\* the number of marks on the board: the moves applied so far
Applied(b) == Count(b, "X") + Count(b, "O")

\* C17: in the console loop, with the human supplying a valid move on each of
\* their turns, the search always returns an empty cell, every iteration
\* applies one move to an ongoing board, the loop reaches its break, and at the
\* break the game is over, by a win or a draw, after at most 9 moves; no
\* move is applied after the break.
C17_GameTerminates ==
    /\ [](pc = "loop" /\ current_player = ai_player =>
            get_best_move(board, ai_player, human_player).move \in EmptyCells(board))
    /\ [][/\ pc = "loop"
          /\ Ongoing(board)
          /\ Applied(board') = Applied(board) + 1]_vars
    /\ <>(pc = "done")
    /\ [](pc = "done" =>
            /\ ~Ongoing(board)
            /\ is_game_over(board)[2] \in Players \cup {"Draw"}
            /\ Applied(board) <= N * N)
    /\ [](pc = "loop" => Ongoing(board))

\* the break after the ninth move, the human's, on a board without a line
C17_Witness ==
    /\ pc = "done"
    /\ opponent = "any"
    /\ op = "human_move"
    /\ Applied(board) = N * N
    /\ is_game_over(board) = <<TRUE, "Draw">>

====
